---- MODULE Spec2Model ----
(***************************************************************************)
(* State-machine model of src/downloader.py: one DownloadTask, the worker  *)
(* thread(s) that run DownloadTask._run, and a caller issuing the commands *)
(* of the task (start, pause, resume, stop, request_force_save,            *)
(* retry_segment).                                                         *)
(*                                                                         *)
(* Atomicity.  The worker mutates the task without holding self._lock, so  *)
(* every statement of the worker that reads or writes a field shared with  *)
(* the caller is one action.  A `with self._lock:` block of a command is   *)
(* one action; what a command does after releasing the lock (thread.start, *)
(* _update_status) is a further action of that command.                    *)
(*                                                                         *)
(* Not modelled: wall-clock telemetry (created_at, started_at,             *)
(* completed_at, speed_bps, eta_seconds), HTTP headers, AES keys.          *)
(*                                                                         *)
(* Beside the task, four pieces of code are modelled on their own, each    *)
(* with its own specification: is_safe_url of src/app.py (SpecFilter),     *)
(* DownloadTaskOptions.validate (SpecValidate), the registry of            *)
(* DownloadManager (SpecManager) and DownloadTask._prepare_segments        *)
(* (SpecPrepare).  Their variables stay at their initial values in Spec.   *)
(***************************************************************************)
EXTENDS Integers, Sequences, FiniteSets, TLC

\* ------------------------------------------------------------------ bounds
MaxSegments == 2     \* number of segments of the served media playlist
MaxThreads == 2      \* threading.Thread objects created over the task's life
MaxRetries == 1      \* options.max_retries of the modelled task
MaxCommands == 4     \* commands issued to the task over its life
MaxAnswers == 2      \* entries in one answer of socket.getaddrinfo
MaxPosition == 2     \* largest value given to start_segment and end_segment
MaxTasks == 2        \* task ids the manager is asked about
MaxSubmissions == 2  \* requests POSTed to /download

Threads == 1..MaxThreads
NoThread == 0

\* ------------------------------------------------------------- vocabulary
Terminal == {"completed", "error", "stopped", "forced"}

Paths == {"temp", "ts", "partial", "mp4"}

NoMessage == <<>>

NoError == "none"

HttpError == "HTTP 500"

VariantMessage == <<"Variant playlists are not supported. Provide a media playlist URL.">>

EmptyMessage == <<"Playlist does not contain any segments">>

LoadOutcomes == {"ok", "variant", "empty"}

FfmpegOutcomes == {"missing", "ok", "fail"}

\* How the fetch of a segment ends: with its body; with a status >= 400; with
\* an exception of requests.get (connection failure, timeout); with an
\* exception of the key request in _resolve_key; with an exception of the
\* cipher.
FetchOutcomes == {"ok", "http_error", "request_failed", "key_failed", "cipher_failed"}

\* str(exc) of an exception that is not a DownloadError, as _run reports it.
Unexpected(outcome) == <<"Unexpected error", outcome>>

\* Bytes the server delivers for the segment at 0-based playlist index i:
\* a body of 1 or 2 bytes, all equal to i + 1, so that both the order and
\* the length of what is written can be told apart.
Payload(i) == [k \in 1..(1 + (i % 2)) |-> i + 1]

\* ffmpeg -c copy: the same elementary stream in another container.
Remux(data) == <<0>> \o data

RECURSIVE Flatten(_)
Flatten(chunks) == IF chunks = <<>> THEN <<>> ELSE Head(chunks) \o Flatten(Tail(chunks))

RECURSIVE SumSizes(_)
SumSizes(segs) ==
    IF segs = <<>> THEN 0
    ELSE (IF Head(segs).status = "completed" THEN Head(segs).size ELSE 0) + SumSizes(Tail(segs))

\* ------------------------------------------------------- URL safety filter
\* The addresses of the model, one or two of each class, IPv4 and IPv6.
Addresses ==
    {"8.8.8.8", "2001:4860::1",
     "10.0.0.1", "fd00::1",
     "127.0.0.1", "::1",
     "169.254.1.1", "fe80::1",
     "240.0.0.1",
     "224.0.0.1", "ff02::1"}

\* The properties of ipaddress.ip_address(a) for the addresses above, as the
\* ipaddress module computes them.
is_private(a) ==
    a \in {"10.0.0.1", "fd00::1", "127.0.0.1", "::1", "169.254.1.1", "fe80::1", "240.0.0.1"}

is_loopback(a) == a \in {"127.0.0.1", "::1"}

is_link_local(a) == a \in {"169.254.1.1", "fe80::1"}

is_reserved(a) == a \in {"240.0.0.1", "::1"}

is_multicast(a) == a \in {"224.0.0.1", "ff02::1"}

\* urlparse(url).hostname is None.
NoHost == ""

HostNames == {"cdn.example"}

\* A URL, as far as the filter and the requests look at it.
Urls == [hostname : {NoHost} \cup Addresses \cup HostNames, path : {"a"}]

NoUrl == [hostname |-> NoHost, path |-> ""]

\* One entry of getaddrinfo's answer, reduced to its sockaddr: empty, or a
\* tuple whose first element is the address as text.
SockAddrs == {<<>>, <<"not an address">>} \cup {<<a>> : a \in Addresses}

RECURSIVE SeqsUpTo(_, _)
SeqsUpTo(S, n) ==
    IF n = 0 THEN {<<>>}
    ELSE SeqsUpTo(S, n - 1) \cup {Append(q, x) : q \in {r \in SeqsUpTo(S, n - 1) : Len(r) = n - 1}, x \in S}

\* What getaddrinfo does for a host name: raise socket.gaierror or return a
\* list of entries.
GaiError == [gaierror |-> TRUE, info |-> <<>>]

Answer(info) == [gaierror |-> FALSE, info |-> info]

AddrInfos == {GaiError} \cup {Answer(info) : info \in SeqsUpTo(SockAddrs, MaxAnswers)}

\* The first loop of is_safe_url: ip_address(address) raises ValueError for
\* an entry, which makes the function return False.
RaisesValueError(info) ==
    \E k \in 1..Len(info) : info[k] # <<>> /\ info[k][1] \notin Addresses

\* The same loop when nothing raises: entries without sockaddr are skipped.
RECURSIVE Collect(_)
Collect(info) ==
    IF info = <<>> THEN <<>>
    ELSE IF Head(info) = <<>> THEN Collect(Tail(info))
    ELSE <<Head(info)[1]>> \o Collect(Tail(info))

\* AllPass returning True as soon as one address passes.
AllPass_OnePasses(addresses) ==
    \E k \in 1..Len(addresses) :
        ~(\/ is_private(addresses[k])
          \/ is_loopback(addresses[k])
          \/ is_link_local(addresses[k])
          \/ is_reserved(addresses[k]))

\* The second loop of is_safe_url.
AllPass(addresses) ==
    \A k \in 1..Len(addresses) :
        ~(\/ is_private(addresses[k])
          \/ is_loopback(addresses[k])
          \/ is_link_local(addresses[k])
          \/ is_reserved(addresses[k]))

\* is_safe_url(url), with the answer getaddrinfo gives for the host of url.
is_safe_url(u, getaddrinfo) ==
    LET hostname == u.hostname
    IN IF hostname = NoHost THEN FALSE
       ELSE IF hostname \in Addresses THEN AllPass(<<hostname>>)
       ELSE IF getaddrinfo.gaierror THEN FALSE
       ELSE IF RaisesValueError(getaddrinfo.info) THEN FALSE
       ELSE IF Collect(getaddrinfo.info) = <<>> THEN FALSE
       ELSE AllPass(Collect(getaddrinfo.info))

\* The network the modelled task downloads from: the playlist is served by
\* cdn.example, a public host, and lists its segments with absolute URLs, the
\* odd ones on the loopback address.
PlaylistUrl == [hostname |-> "cdn.example", path |-> "index.m3u8"]

SegmentUrl(i) ==
    [hostname |-> IF i % 2 = 1 THEN "127.0.0.1" ELSE "cdn.example", path |-> "segment.ts"]

Resolver(hostname) == IF hostname = "cdn.example" THEN Answer(<< <<"8.8.8.8">> >>) ELSE GaiError

\* The value a call has returned; NotCalled before the call.
NotCalled == <<>>

Returned(v) == <<v>>

\* ------------------------------------------------------------ the options
\* Optional[int]: None, or an integer.
None == <<>>

Some(n) == <<n>>

OptionalPositions == {None} \cup {Some(n) : n \in 0..MaxPosition}

\* DownloadTaskOptions, the fields validate and _prepare_segments read.
OptionSets ==
    [url : {"", "https://cdn.example/index.m3u8"},
     title : {"demo"},
     output_format : {"ts", "mp4", "avi"},
     start_segment : OptionalPositions,
     end_segment : OptionalPositions]

\* DownloadTaskOptions(url=..., title=...) with every default.
DefaultOptions ==
    [url |-> "https://cdn.example/index.m3u8", title |-> "demo", output_format |-> "ts",
     start_segment |-> None, end_segment |-> None]

\* validate returns None.
Passes == "passes"

\* validate with `start_segment < 0` for `start_segment < 1`.
validate_ZeroStartAccepted(o) ==
    IF o.url = "" THEN "url is required"
    ELSE IF o.output_format \notin {"ts", "mp4"} THEN "output_format must be 'ts' or 'mp4'"
    ELSE IF o.start_segment # None /\ o.start_segment[1] < 0 THEN "start_segment must be >= 1"
    ELSE IF o.end_segment # None /\ o.start_segment # None /\ o.end_segment[1] < o.start_segment[1]
    THEN "end_segment must be greater or equal to start_segment"
    ELSE Passes

\* DownloadTaskOptions.validate: the text of the ValueError it raises, or
\* Passes.
validate(o) ==
    IF o.url = "" THEN "url is required"
    ELSE IF o.output_format \notin {"ts", "mp4"} THEN "output_format must be 'ts' or 'mp4'"
    ELSE IF o.start_segment # None /\ o.start_segment[1] < 1 THEN "start_segment must be >= 1"
    ELSE IF o.end_segment # None /\ o.start_segment # None /\ o.end_segment[1] < o.start_segment[1]
    THEN "end_segment must be greater or equal to start_segment"
    ELSE Passes

\* Python's truth value of an Optional[int]: None and 0 are false.
Truthy(x) == x # None /\ x[1] # 0

\* ------------------------------------------------------------------ state
VARIABLES
    opts,           \* DownloadTaskOptions: stream_to_disk, output_format
    status,         \* DownloadTask.status
    message,        \* DownloadTask.message
    thread,         \* DownloadTask._thread (NoThread = None)
    stop_event,     \* DownloadTask._stop_event
    force_event,    \* DownloadTask._force_event
    pause_event,    \* DownloadTask._pause_event
    segments,       \* DownloadTask._segments, 1-based here: segments[i+1] is index i
    cursor,         \* DownloadTask._cursor
    total_bytes,    \* DownloadTask.total_bytes
    output_path,    \* DownloadTask.output_path, as a member of Paths
    ffmpeg_missing, \* DownloadTask._ffmpeg_missing
    fs,             \* the download directory: path -> [exists, data]
    pc,             \* position of each worker thread in _run
    seg,            \* worker local: index held by `segment` in _download_segments
    payload,        \* worker local: `payload`
    data_buffer,    \* worker local: `data_buffer`
    final_path,     \* worker local: `final_path` of _download_segments
    exc,            \* worker local: message of the exception being propagated
    cpc,            \* position of the caller inside the command it is executing
    commands,       \* number of commands issued so far
    last,           \* history: the command the latest step belongs to, or "worker"
    pauseHeld,      \* history: pause found a live worker; no start, resume or stop since
    pauseSeen,      \* history: the worker went through the pause gate while pauseHeld
    stopInWait,     \* history: stop was signalled while a worker sat in the pause wait
    url,            \* is_safe_url: the argument `url`
    addr_info,      \* is_safe_url: what socket.getaddrinfo answers for the host of url
    safe,           \* is_safe_url: the value returned, NotCalled before the call
    options,        \* DownloadTaskOptions.validate: the options it is called on
    raised,         \* what the latest call raised or returned, NotCalled before it
    registry,       \* DownloadManager._tasks: task id -> task
    playlist,       \* _prepare_segments: playlist.segments
    prepared,       \* _prepare_segments: the list assigned to _segments, NotCalled before
    media_sequence, \* _prepare_segments: playlist.media_sequence (EXT-X-MEDIA-SEQUENCE)
    key,            \* _prepare_segments: the key in force for the segments (EXT-X-KEY)
    download_status, \* app.py: download_status, task id -> status record
    downloads,      \* app.py: the download_m3u8 threads started so far, in order
    app_files,      \* app.py: DOWNLOAD_FOLDER, file name -> [part, output]
    start2,         \* a second caller inside DownloadTask.start: its position and locals
    single_segment, \* _download_single_segment on its own: one call and what came of it
    shared          \* the tasks of one manager and the files of their output_dir

taskVars == <<status, message, thread, stop_event, force_event, pause_event,
              segments, cursor, total_bytes, output_path, ffmpeg_missing>>

workerVars == <<pc, seg, payload, data_buffer, final_path, exc>>

filterVars == <<url, addr_info, safe>>

\* What the pure functions checked on their own work on; no step of a task
\* touches it.
validateVars == <<options, raised>>

prepareVars == <<playlist, prepared, media_sequence, key>>

appVars == <<download_status, downloads, app_files>>

\* What is modelled beside the task and the functions above.
extraVars == <<appVars, start2, single_segment, shared>>

auxVars == <<filterVars, validateVars, registry, prepareVars, extraVars>>

vars == <<opts, taskVars, fs, workerVars, cpc, commands, last, pauseHeld, pauseSeen, stopInWait,
          auxVars>>

\* An EXT-X-KEY tag: uri ("" when the tag has none, as METHOD=NONE, or when
\* there is no tag), method, and the hex digits of its IV attribute after
\* "0x" (<<>> when it has none).
NoKey == [uri |-> "", method |-> "", iv |-> <<>>]

PlaylistKeys ==
    {NoKey} \cup [uri : {"key.bin"}, method : {"AES-128", "SAMPLE-AES"}, iv : {<<>>, <<1, 0>>}]

\* int.to_bytes(length, "big")
RECURSIVE to_bytes(_, _)
to_bytes(n, length) ==
    IF length = 0 THEN <<>> ELSE Append(to_bytes(n \div 256, length - 1), n % 256)

\* DownloadTask._parse_iv: zfill(32), then bytes.fromhex.
parse_iv(digits) ==
    LET padded == [k \in 1..32 |->
                      IF k <= 32 - Len(digits) THEN 0 ELSE digits[k - (32 - Len(digits))]]
    IN [k \in 1..16 |-> 16 * padded[2 * k - 1] + padded[2 * k]]

\* key_uri, iv and method of the SegmentStatus for the segment at playlist
\* index idx; "" and <<>> stand for None.
SegmentKey(idx) ==
    LET position == idx + 1
    IN IF key.uri # ""
       THEN [key_uri |-> key.uri,
             method |-> key.method,
             iv |-> IF key.iv # <<>> THEN parse_iv(key.iv) ELSE to_bytes(position, 16)]
       ELSE [key_uri |-> "", method |-> "", iv |-> <<>>]

\* SegmentStatus(index=idx, ...) in place of index=len(prepared).
PreparedSegment_PlaylistIndex(prepared_so_far, idx, segment) ==
    [index |-> idx, url |-> segment,
     key_uri |-> SegmentKey(idx).key_uri, iv |-> SegmentKey(idx).iv,
     method |-> SegmentKey(idx).method]

\* The SegmentStatus _prepare_segments appends for a playlist segment.
PreparedSegment(prepared_so_far, idx, segment) ==
    [index |-> Len(prepared_so_far), url |-> segment,
     key_uri |-> SegmentKey(idx).key_uri, iv |-> SegmentKey(idx).iv,
     method |-> SegmentKey(idx).method]

\* The loop of _prepare_segments from playlist index idx on.
RECURSIVE PrepareFrom(_, _, _, _)
PrepareFrom(idx, segs, o, prepared_so_far) ==
    IF idx >= Len(segs) THEN prepared_so_far
    ELSE LET position == idx + 1
         IN IF Truthy(o.start_segment) /\ position < o.start_segment[1]
            THEN PrepareFrom(idx + 1, segs, o, prepared_so_far)
            ELSE IF Truthy(o.end_segment) /\ position > o.end_segment[1]
            THEN prepared_so_far
            ELSE PrepareFrom(idx + 1, segs, o,
                             Append(prepared_so_far,
                                    PreparedSegment(prepared_so_far, idx, segs[idx + 1])))

\* A media playlist of n segments; a segment is named by its place.
MediaPlaylist(n) == [k \in 1..n |-> k]

NoFile == [exists |-> FALSE, data |-> <<>>]

File(data) == [exists |-> TRUE, data |-> data]

\* threading.Thread.is_alive(): started and not yet finished.
IsAlive(t) == t # NoThread /\ pc[t] \notin {"unborn", "created", "dead"}

NewSegment == [status |-> "pending", size |-> 0, retries |-> 0, error |-> NoError]

\* DownloadTask.to_dict
Snapshot ==
    LET completed == Cardinality({i \in 1..Len(segments) : segments[i].status = "completed"})
        total == Len(segments)
    IN [output_format |-> opts.output_format,
        stream_to_disk |-> opts.stream_to_disk,
        status |-> status,
        message |-> message,
        segments |-> segments,
        total_segments |-> total,
        downloaded_segments |-> completed,
        progress |-> <<completed, IF total = 0 THEN 1 ELSE total>>,
        total_bytes |-> total_bytes,
        output_path |-> output_path,
        ffmpeg_missing |-> ffmpeg_missing]

\* DownloadTask.__init__
TaskInit ==
    /\ opts \in [stream_to_disk : BOOLEAN, output_format : {"ts", "mp4"}]
    /\ status = "ready"
    /\ message = NoMessage
    /\ thread = NoThread
    /\ stop_event = FALSE
    /\ force_event = FALSE
    /\ pause_event = TRUE
    /\ segments = <<>>
    /\ cursor = 0
    /\ total_bytes = 0
    /\ output_path = opts.output_format
    /\ ffmpeg_missing = FALSE
    /\ fs = [p \in Paths |-> NoFile]
    /\ pc = [t \in Threads |-> "unborn"]
    /\ seg = [t \in Threads |-> 0]
    /\ payload = [t \in Threads |-> <<>>]
    /\ data_buffer = [t \in Threads |-> <<>>]
    /\ final_path = [t \in Threads |-> "ts"]
    /\ exc = [t \in Threads |-> NoMessage]
    /\ cpc = "idle"
    /\ commands = 0
    /\ last = "none"
    /\ pauseHeld = FALSE
    /\ pauseSeen = FALSE
    /\ stopInWait = FALSE

\* No call of is_safe_url is being looked at.
FilterIdle == url = NoUrl /\ addr_info = GaiError /\ safe = NotCalled

\* No call of validate is being looked at.
ValidateIdle == options = DefaultOptions /\ raised = NotCalled

\* DownloadManager.__init__
ManagerIdle == registry = <<>>

\* No call of _prepare_segments is being looked at.
PrepareIdle == playlist = <<>> /\ prepared = NotCalled /\ media_sequence = 0 /\ key = NoKey

\* app.py as imported: no submission yet.
AppIdle ==
    /\ download_status = <<>>
    /\ downloads = <<>>
    /\ app_files = [f \in {"video.mp4", "other.mp4"} |-> [part |-> NoFile, output |-> NoFile]]

\* No second caller is inside start.
NoSecondCall == [pc |-> "idle", thread_to_start |-> NoThread]

\* No call of _download_single_segment under way.
NoSingle ==
    [segment |-> [key_uri |-> "", method |-> "", iv |-> <<>>], decrypt |-> TRUE,
     status_code |-> 200, key_status |-> 200, result |-> NotCalled, temp |-> <<>>]

\* No task in the shared output directory.
NoShared == [tasks |-> <<>>, files |-> <<>>]

ExtraIdle ==
    AppIdle /\ start2 = NoSecondCall /\ single_segment = NoSingle /\ shared = NoShared

Init == TaskInit /\ FilterIdle /\ ValidateIdle /\ ManagerIdle /\ PrepareIdle /\ ExtraIdle

\* --------------------------------------------------------------- commands
\* DownloadTask._update_status
UpdateStatus(s, m) ==
    /\ status' = s
    /\ message' = IF m # NoMessage THEN m ELSE message

\* StartLocked with `forced` left out of the statuses that make start return.
StartLocked_ForcedRestarts ==
    /\ cpc = "idle"
    /\ commands < MaxCommands
    /\ commands' = commands + 1
    /\ IF IsAlive(thread)
       THEN /\ IF ~pause_event
               THEN pause_event' = TRUE /\ cpc' = "start_resume"
               ELSE UNCHANGED <<pause_event, cpc>>
            /\ UNCHANGED <<stop_event, force_event, thread, pc>>
       ELSE IF status \in {"completed"}
            THEN UNCHANGED <<pause_event, cpc, stop_event, force_event, thread, pc>>
            ELSE \E t \in Threads :
                    /\ pc[t] = "unborn"
                    /\ \A u \in Threads : u < t => pc[u] # "unborn"
                    /\ stop_event' = FALSE
                    /\ force_event' = FALSE
                    /\ pause_event' = TRUE
                    /\ thread' = t
                    /\ pc' = [pc EXCEPT ![t] = "created"]
                    /\ cpc' = "start_spawn"
    /\ UNCHANGED <<opts, status, message, segments, cursor, total_bytes, output_path,
                   ffmpeg_missing, fs, seg, payload, data_buffer, final_path, exc>>

\* DownloadTask.start, the `with self._lock:` block (DownloadTask.resume is
\* a call of start).
StartLocked ==
    /\ cpc = "idle"
    /\ commands < MaxCommands
    /\ commands' = commands + 1
    /\ IF IsAlive(thread)
       THEN /\ IF ~pause_event
               THEN pause_event' = TRUE /\ cpc' = "start_resume"
               ELSE UNCHANGED <<pause_event, cpc>>
            /\ UNCHANGED <<stop_event, force_event, thread, pc>>
       ELSE IF status \in {"completed", "forced"}
            THEN UNCHANGED <<pause_event, cpc, stop_event, force_event, thread, pc>>
            ELSE \E t \in Threads :
                    /\ pc[t] = "unborn"
                    /\ \A u \in Threads : u < t => pc[u] # "unborn"
                    /\ stop_event' = FALSE
                    /\ force_event' = FALSE
                    /\ pause_event' = TRUE
                    /\ thread' = t
                    /\ pc' = [pc EXCEPT ![t] = "created"]
                    /\ cpc' = "start_spawn"
    /\ UNCHANGED <<opts, status, message, segments, cursor, total_bytes, output_path,
                   ffmpeg_missing, fs, seg, payload, data_buffer, final_path, exc>>

\* DownloadTask.start, `thread_to_start.start()` after the lock is released.
StartSpawn ==
    /\ cpc = "start_spawn"
    /\ \E t \in Threads :
          /\ pc[t] = "created"
          /\ pc' = [pc EXCEPT ![t] = "run_start"]
    /\ cpc' = "idle"
    /\ UNCHANGED <<opts, taskVars, fs, seg, payload, data_buffer, final_path, exc, commands>>

\* DownloadTask.start, `if resume: self._update_status("downloading", ...)`.
StartResume ==
    /\ cpc = "start_resume"
    /\ UpdateStatus("downloading", <<"Resuming download">>)
    /\ cpc' = "idle"
    /\ UNCHANGED <<opts, thread, stop_event, force_event, pause_event, segments, cursor,
                   total_bytes, output_path, ffmpeg_missing, fs, workerVars, commands>>

\* DownloadTask.request_force_save
RequestForceSave ==
    /\ cpc = "idle"
    /\ commands < MaxCommands
    /\ commands' = commands + 1
    /\ force_event' = TRUE
    /\ UNCHANGED <<opts, status, message, thread, stop_event, pause_event, segments, cursor,
                   total_bytes, output_path, ffmpeg_missing, fs, workerVars, cpc>>

\* DownloadTask.stop, `self._stop_event.set()`.
StopSignal ==
    /\ cpc = "idle"
    /\ commands < MaxCommands
    /\ commands' = commands + 1
    /\ stop_event' = TRUE
    /\ cpc' = "stop_wake"
    /\ UNCHANGED <<opts, status, message, thread, force_event, pause_event, segments, cursor,
                   total_bytes, output_path, ffmpeg_missing, fs, workerVars>>

\* DownloadTask.stop, `self._pause_event.set()`; the join that follows has a
\* timeout and changes no state, so the command returns here.
StopWake ==
    /\ cpc = "stop_wake"
    /\ pause_event' = TRUE
    /\ cpc' = "idle"
    /\ UNCHANGED <<opts, status, message, thread, stop_event, force_event, segments, cursor,
                   total_bytes, output_path, ffmpeg_missing, fs, workerVars, commands>>

\* PauseLocked without `self._pause_event.clear()`.
PauseLocked_EventNotCleared ==
    /\ cpc = "idle"
    /\ commands < MaxCommands
    /\ commands' = commands + 1
    /\ IF IsAlive(thread)
       THEN pause_event' = pause_event /\ cpc' = "pause_status"
       ELSE UNCHANGED <<pause_event, cpc>>
    /\ UNCHANGED <<opts, status, message, thread, stop_event, force_event, segments, cursor,
                   total_bytes, output_path, ffmpeg_missing, fs, workerVars>>

\* DownloadTask.pause, the `with self._lock:` block.
PauseLocked ==
    /\ cpc = "idle"
    /\ commands < MaxCommands
    /\ commands' = commands + 1
    /\ IF IsAlive(thread)
       THEN pause_event' = FALSE /\ cpc' = "pause_status"
       ELSE UNCHANGED <<pause_event, cpc>>
    /\ UNCHANGED <<opts, status, message, thread, stop_event, force_event, segments, cursor,
                   total_bytes, output_path, ffmpeg_missing, fs, workerVars>>

\* DownloadTask.pause, `self._update_status("paused", ...)` after the lock.
PauseStatus ==
    /\ cpc = "pause_status"
    /\ UpdateStatus("paused", <<"Download paused">>)
    /\ cpc' = "idle"
    /\ UNCHANGED <<opts, thread, stop_event, force_event, pause_event, segments, cursor,
                   total_bytes, output_path, ffmpeg_missing, fs, workerVars, commands>>

\* DownloadTask.retry_segment(i); an index out of range raises IndexError and
\* changes nothing.
RetrySegment(i) ==
    /\ cpc = "idle"
    /\ commands < MaxCommands
    /\ commands' = commands + 1
    /\ IF i < 0 \/ i >= Len(segments)
       THEN UNCHANGED <<segments, cursor>>
       ELSE /\ segments' = [segments EXCEPT ![i + 1] =
                               [@ EXCEPT !.status = "pending", !.error = NoError, !.retries = 0]]
            /\ cursor' = IF cursor > i THEN i ELSE cursor
    /\ UNCHANGED <<opts, status, message, thread, stop_event, force_event, pause_event,
                   total_bytes, output_path, ffmpeg_missing, fs, workerVars, cpc>>

\* ----------------------------------------------------------------- worker
\* DownloadTask._run, `self._update_status("preparing", ...)`.
RunStart(t) ==
    /\ pc[t] = "run_start"
    /\ UpdateStatus("preparing", <<"Resolving playlist">>)
    /\ pc' = [pc EXCEPT ![t] = "load"]
    /\ UNCHANGED <<opts, thread, stop_event, force_event, pause_event, segments, cursor,
                   total_bytes, output_path, ffmpeg_missing, fs, seg, payload, data_buffer,
                   final_path, exc, cpc, commands>>

\* LoadPlaylist without the `if playlist.is_variant` test: a master playlist
\* has no segments of its own and is prepared like an empty media playlist.
LoadPlaylist_VariantNotRejected(t, outcome) ==
    /\ pc[t] = "load"
    /\ IF outcome \in {"variant", "empty"}
       THEN /\ segments' = <<>>
            /\ cursor' = 0
            /\ exc' = [exc EXCEPT ![t] = EmptyMessage]
            /\ pc' = [pc EXCEPT ![t] = "except"]
       ELSE /\ segments' = [i \in 1..MaxSegments |-> NewSegment]
            /\ cursor' = 0
            /\ pc' = [pc EXCEPT ![t] = "set_downloading"]
            /\ UNCHANGED exc
    /\ UNCHANGED <<opts, status, message, thread, stop_event, force_event, pause_event,
                   total_bytes, output_path, ffmpeg_missing, fs, seg, payload, data_buffer,
                   final_path, cpc, commands>>

\* DownloadTask._load_playlist, DownloadTask._prepare_segments and the
\* `if not self._segments` test of _run.  What the server answers is the
\* input: a media playlist of MaxSegments segments, a variant playlist, or a
\* media playlist without segments.
LoadPlaylist(t, outcome) ==
    /\ pc[t] = "load"
    /\ IF outcome = "variant"
       THEN /\ exc' = [exc EXCEPT ![t] = VariantMessage]
            /\ pc' = [pc EXCEPT ![t] = "except"]
            /\ UNCHANGED <<segments, cursor>>
       ELSE IF outcome = "empty"
       THEN /\ segments' = <<>>
            /\ cursor' = 0
            /\ exc' = [exc EXCEPT ![t] = EmptyMessage]
            /\ pc' = [pc EXCEPT ![t] = "except"]
       ELSE /\ segments' = [i \in 1..MaxSegments |-> NewSegment]
            /\ cursor' = 0
            /\ pc' = [pc EXCEPT ![t] = "set_downloading"]
            /\ UNCHANGED exc
    /\ UNCHANGED <<opts, status, message, thread, stop_event, force_event, pause_event,
                   total_bytes, output_path, ffmpeg_missing, fs, seg, payload, data_buffer,
                   final_path, cpc, commands>>

\* DownloadTask._run, `self._update_status("downloading", ...)`.
SetDownloading(t) ==
    /\ pc[t] = "set_downloading"
    /\ UpdateStatus("downloading", <<"Downloading segments">>)
    /\ pc' = [pc EXCEPT ![t] = "dl_enter"]
    /\ UNCHANGED <<opts, thread, stop_event, force_event, pause_event, segments, cursor,
                   total_bytes, output_path, ffmpeg_missing, fs, seg, payload, data_buffer,
                   final_path, exc, cpc, commands>>

\* DownloadTask._download_segments, before the loop: a fresh data_buffer and
\* the temp file of an earlier run removed.
EnterDownload(t) ==
    /\ pc[t] = "dl_enter"
    /\ data_buffer' = [data_buffer EXCEPT ![t] = <<>>]
    /\ fs' = [fs EXCEPT !["temp"] = NoFile]
    /\ pc' = [pc EXCEPT ![t] = "checkpoint"]
    /\ UNCHANGED <<opts, taskVars, seg, payload, final_path, exc, cpc, commands>>

\* CheckStop with the force-save test placed before the cancel test.
CheckStop_ForceFirst(t) ==
    /\ pc[t] = "checkpoint"
    /\ IF cursor >= Len(segments)
       THEN pc' = [pc EXCEPT ![t] = "flush"] /\ UNCHANGED <<status, message>>
       ELSE IF force_event
       THEN /\ UpdateStatus("forced", <<"Partial download saved">>)
            /\ pc' = [pc EXCEPT ![t] = "flush"]
       ELSE IF stop_event
       THEN /\ UpdateStatus("stopped", <<"Download cancelled">>)
            /\ pc' = [pc EXCEPT ![t] = "run_check"]
       ELSE pc' = [pc EXCEPT ![t] = "chk_force"] /\ UNCHANGED <<status, message>>
    /\ UNCHANGED <<opts, thread, stop_event, force_event, pause_event, segments, cursor,
                   total_bytes, output_path, ffmpeg_missing, fs, seg, payload, data_buffer,
                   final_path, exc, cpc, commands>>

\* The loop condition and the cancel check.
CheckStop(t) ==
    /\ pc[t] = "checkpoint"
    /\ IF cursor >= Len(segments)
       THEN pc' = [pc EXCEPT ![t] = "flush"] /\ UNCHANGED <<status, message>>
       ELSE IF stop_event
       THEN /\ UpdateStatus("stopped", <<"Download cancelled">>)
            /\ pc' = [pc EXCEPT ![t] = "run_check"]
       ELSE pc' = [pc EXCEPT ![t] = "chk_force"] /\ UNCHANGED <<status, message>>
    /\ UNCHANGED <<opts, thread, stop_event, force_event, pause_event, segments, cursor,
                   total_bytes, output_path, ffmpeg_missing, fs, seg, payload, data_buffer,
                   final_path, exc, cpc, commands>>

\* The force-save check.
CheckForce(t) ==
    /\ pc[t] = "chk_force"
    /\ IF force_event
       THEN /\ UpdateStatus("forced", <<"Partial download saved">>)
            /\ pc' = [pc EXCEPT ![t] = "flush"]
       ELSE pc' = [pc EXCEPT ![t] = "chk_pause"] /\ UNCHANGED <<status, message>>
    /\ UNCHANGED <<opts, thread, stop_event, force_event, pause_event, segments, cursor,
                   total_bytes, output_path, ffmpeg_missing, fs, seg, payload, data_buffer,
                   final_path, exc, cpc, commands>>

\* `if not self._pause_event.is_set():`
CheckPause(t) ==
    /\ pc[t] = "chk_pause"
    /\ pc' = [pc EXCEPT ![t] = IF pause_event THEN "fetch_begin" ELSE "pause_status"]
    /\ UNCHANGED <<opts, taskVars, fs, seg, payload, data_buffer, final_path, exc, cpc,
                   commands>>

\* `if self.status != "paused": self._update_status("paused", ...)`
PauseGate(t) ==
    /\ pc[t] = "pause_status"
    /\ IF status # "paused"
       THEN UpdateStatus("paused", <<"Download paused">>)
       ELSE UNCHANGED <<status, message>>
    /\ pc' = [pc EXCEPT ![t] = "pause_wait"]
    /\ UNCHANGED <<opts, thread, stop_event, force_event, pause_event, segments, cursor,
                   total_bytes, output_path, ffmpeg_missing, fs, seg, payload, data_buffer,
                   final_path, exc, cpc, commands>>

\* `if not self._pause_event.wait(timeout=0.2): continue`
PauseWait(t) ==
    /\ pc[t] = "pause_wait"
    /\ pc' = [pc EXCEPT ![t] = IF pause_event THEN "wait_resumed" ELSE "checkpoint"]
    /\ UNCHANGED <<opts, taskVars, fs, seg, payload, data_buffer, final_path, exc, cpc,
                   commands>>

\* `self._update_status("downloading", ...)` after the wait has returned True.
WaitResumed(t) ==
    /\ pc[t] = "wait_resumed"
    /\ UpdateStatus("downloading", <<"Downloading segments">>)
    /\ pc' = [pc EXCEPT ![t] = "fetch_begin"]
    /\ UNCHANGED <<opts, thread, stop_event, force_event, pause_event, segments, cursor,
                   total_bytes, output_path, ffmpeg_missing, fs, seg, payload, data_buffer,
                   final_path, exc, cpc, commands>>

\* `segment = self._segments[self._cursor]` and, in _download_single_segment,
\* `segment.status = "downloading"`; the request is sent.
FetchBegin(t) ==
    /\ pc[t] = "fetch_begin"
    /\ seg' = [seg EXCEPT ![t] = cursor]
    /\ segments' = [segments EXCEPT ![cursor + 1].status = "downloading"]
    /\ pc' = [pc EXCEPT ![t] = "fetch_end"]
    /\ UNCHANGED <<opts, status, message, thread, stop_event, force_event, pause_event,
                   cursor, total_bytes, output_path, ffmpeg_missing, fs, payload, data_buffer,
                   final_path, exc, cpc, commands>>

\* _download_single_segment, how the request ends: with the body, which is
\* counted in total_bytes; with a status >= 400, which raises DownloadError;
\* or with an exception of requests, of the key request or of the cipher,
\* which is no DownloadError and leaves the loop for the handler of _run.
FetchEnd(t, outcome) ==
    /\ pc[t] = "fetch_end"
    /\ IF outcome = "ok"
       THEN /\ payload' = [payload EXCEPT ![t] = Payload(seg[t])]
            /\ total_bytes' = total_bytes + Len(Payload(seg[t]))
            /\ pc' = [pc EXCEPT ![t] = "commit"]
            /\ UNCHANGED exc
       ELSE IF outcome = "http_error"
       THEN /\ pc' = [pc EXCEPT ![t] = "fail"]
            /\ UNCHANGED <<payload, total_bytes, exc>>
       ELSE /\ exc' = [exc EXCEPT ![t] = Unexpected(outcome)]
            /\ pc' = [pc EXCEPT ![t] = "except"]
            /\ UNCHANGED <<payload, total_bytes>>
    /\ UNCHANGED <<opts, status, message, thread, stop_event, force_event, pause_event,
                   segments, cursor, output_path, ffmpeg_missing, fs, seg, data_buffer,
                   final_path, cpc, commands>>

\* `segment.status = "completed"; segment.error = None; segment.size = len(payload)`
Commit(t) ==
    /\ pc[t] = "commit"
    /\ segments' = [segments EXCEPT ![seg[t] + 1] =
                       [@ EXCEPT !.status = "completed", !.error = NoError,
                                 !.size = Len(payload[t])]]
    /\ pc' = [pc EXCEPT ![t] = "append"]
    /\ UNCHANGED <<opts, status, message, thread, stop_event, force_event, pause_event,
                   cursor, total_bytes, output_path, ffmpeg_missing, fs, seg, payload,
                   data_buffer, final_path, exc, cpc, commands>>

\* DownloadTask._append_to_temp: open(temp_path, "ab"), write, flush, fsync.
AppendToTemp(data) == fs' = [fs EXCEPT !["temp"] = File(fs["temp"].data \o data)]

\* `self._append_to_temp(payload)` or `data_buffer.append(payload)`.
AppendPayload(t) ==
    /\ pc[t] = "append"
    /\ IF opts.stream_to_disk
       THEN AppendToTemp(payload[t]) /\ UNCHANGED data_buffer
       ELSE /\ data_buffer' = [data_buffer EXCEPT ![t] = Append(@, payload[t])]
            /\ UNCHANGED fs
    /\ payload' = [payload EXCEPT ![t] = <<>>]
    /\ pc' = [pc EXCEPT ![t] = "advance"]
    /\ UNCHANGED <<opts, taskVars, seg, final_path, exc, cpc, commands>>

\* `self._cursor += 1`
Advance(t) ==
    /\ pc[t] = "advance"
    /\ cursor' = cursor + 1
    /\ seg' = [seg EXCEPT ![t] = 0]
    /\ pc' = [pc EXCEPT ![t] = "checkpoint"]
    /\ UNCHANGED <<opts, status, message, thread, stop_event, force_event, pause_event,
                   segments, total_bytes, output_path, ffmpeg_missing, fs, payload,
                   data_buffer, final_path, exc, cpc, commands>>

\* Fail raising as soon as retries reaches max_retries.
Fail_RaisesAtLimit(t) ==
    /\ pc[t] = "fail"
    /\ LET r == segments[seg[t] + 1].retries + 1
       IN /\ segments' = [segments EXCEPT ![seg[t] + 1] =
                             [@ EXCEPT !.retries = r, !.status = "failed", !.error = HttpError]]
          /\ IF r >= MaxRetries
             THEN /\ exc' = [exc EXCEPT ![t] = <<"Segment failed", seg[t], r, HttpError>>]
                  /\ pc' = [pc EXCEPT ![t] = "except"]
             ELSE /\ pc' = [pc EXCEPT ![t] = "checkpoint"]
                  /\ UNCHANGED exc
    /\ seg' = [seg EXCEPT ![t] = 0]
    /\ UNCHANGED <<opts, status, message, thread, stop_event, force_event, pause_event,
                   cursor, total_bytes, output_path, ffmpeg_missing, fs, payload, data_buffer,
                   final_path, cpc, commands>>

\* Fail without the limit: the failed segment is tried again whatever its
\* number of retries.
Fail_NeverGivesUp(t) ==
    /\ pc[t] = "fail"
    /\ segments' = [segments EXCEPT ![seg[t] + 1] =
                       [@ EXCEPT !.status = "failed", !.error = HttpError]]
    /\ pc' = [pc EXCEPT ![t] = "checkpoint"]
    /\ seg' = [seg EXCEPT ![t] = 0]
    /\ UNCHANGED <<opts, status, message, thread, stop_event, force_event, pause_event,
                   cursor, total_bytes, output_path, ffmpeg_missing, fs, payload, data_buffer,
                   final_path, exc, cpc, commands>>

\* `except DownloadError` of the loop: count the attempt, then either raise
\* the task-level error or sleep and go round the loop again.
Fail(t) ==
    /\ pc[t] = "fail"
    /\ LET r == segments[seg[t] + 1].retries + 1
       IN /\ segments' = [segments EXCEPT ![seg[t] + 1] =
                             [@ EXCEPT !.retries = r, !.status = "failed", !.error = HttpError]]
          /\ IF r > MaxRetries
             THEN /\ exc' = [exc EXCEPT ![t] = <<"Segment failed", seg[t], r, HttpError>>]
                  /\ pc' = [pc EXCEPT ![t] = "except"]
             ELSE /\ pc' = [pc EXCEPT ![t] = "checkpoint"]
                  /\ UNCHANGED exc
    /\ seg' = [seg EXCEPT ![t] = 0]
    /\ UNCHANGED <<opts, status, message, thread, stop_event, force_event, pause_event,
                   cursor, total_bytes, output_path, ffmpeg_missing, fs, payload, data_buffer,
                   final_path, cpc, commands>>

\* After the loop: the buffered chunks are written unless the task is forced.
Flush(t) ==
    /\ pc[t] = "flush"
    /\ IF ~opts.stream_to_disk /\ data_buffer[t] # <<>> /\ status # "forced"
       THEN AppendToTemp(Flatten(data_buffer[t]))
       ELSE UNCHANGED fs
    /\ data_buffer' = [data_buffer EXCEPT ![t] = <<>>]
    /\ pc' = [pc EXCEPT ![t] = "final_move"]
    /\ UNCHANGED <<opts, taskVars, seg, payload, final_path, exc, cpc, commands>>

\* Finalisation: choose final_path, remove what is there, move the temp file.
FinalMove(t) ==
    /\ pc[t] = "final_move"
    /\ LET final == IF status = "forced" THEN "partial" ELSE "ts"
       IN /\ final_path' = [final_path EXCEPT ![t] = final]
          /\ fs' = IF fs["temp"].exists
                   THEN [fs EXCEPT ![final] = fs["temp"], !["temp"] = NoFile]
                   ELSE [fs EXCEPT ![final] = NoFile]
    /\ pc' = [pc EXCEPT ![t] = "final_path"]
    /\ UNCHANGED <<opts, taskVars, seg, payload, data_buffer, exc, cpc, commands>>

\* `self.output_path = final_path if ... else self.output_path`
SetOutputPath(t) ==
    /\ pc[t] = "final_path"
    /\ output_path' = IF opts.output_format = "ts" \/ status = "forced"
                      THEN final_path[t] ELSE output_path
    /\ final_path' = [final_path EXCEPT ![t] = "ts"]
    /\ pc' = [pc EXCEPT ![t] = "run_check"]
    /\ UNCHANGED <<opts, status, message, thread, stop_event, force_event, pause_event,
                   segments, cursor, total_bytes, ffmpeg_missing, fs, seg, payload,
                   data_buffer, exc, cpc, commands>>

\* DownloadTask._run after _download_segments has returned.
RunCheck(t) ==
    /\ pc[t] = "run_check"
    /\ pc' = [pc EXCEPT ![t] = IF status \in {"stopped", "forced"} THEN "finally"
                               ELSE IF opts.output_format = "mp4" THEN "convert"
                               ELSE "set_completed"]
    /\ data_buffer' = [data_buffer EXCEPT ![t] = <<>>]
    /\ UNCHANGED <<opts, taskVars, fs, seg, payload, final_path, exc, cpc, commands>>

\* DownloadTask._convert_to_mp4; how ffmpeg behaves is the input.  ffmpeg
\* refuses to write the file it reads, so it fails when output_path is the
\* .ts file.
Convert(t, outcome) ==
    /\ pc[t] = "convert"
    /\ IF status = "forced"
       THEN /\ pc' = [pc EXCEPT ![t] = "set_completed"]
            /\ UNCHANGED <<status, message, output_path, ffmpeg_missing, fs, exc>>
       ELSE IF ~fs["ts"].exists
       THEN /\ exc' = [exc EXCEPT ![t] = <<"TS file missing for conversion">>]
            /\ pc' = [pc EXCEPT ![t] = "except"]
            /\ UNCHANGED <<status, message, output_path, ffmpeg_missing, fs>>
       ELSE IF outcome = "missing"
       THEN /\ ffmpeg_missing' = TRUE
            /\ output_path' = "ts"
            /\ UpdateStatus("completed", <<"ffmpeg not available; saved TS stream instead of MP4">>)
            /\ pc' = [pc EXCEPT ![t] = "set_completed"]
            /\ UNCHANGED <<fs, exc>>
       ELSE IF outcome = "fail" \/ output_path = "ts"
       THEN /\ exc' = [exc EXCEPT ![t] = <<"ffmpeg failed">>]
            /\ pc' = [pc EXCEPT ![t] = "except"]
            /\ UNCHANGED <<status, message, output_path, ffmpeg_missing, fs>>
       ELSE /\ fs' = [fs EXCEPT ![output_path] = File(Remux(fs["ts"].data)), !["ts"] = NoFile]
            /\ pc' = [pc EXCEPT ![t] = "set_completed"]
            /\ UNCHANGED <<status, message, output_path, ffmpeg_missing, exc>>
    /\ UNCHANGED <<opts, thread, stop_event, force_event, pause_event, segments, cursor,
                   total_bytes, seg, payload, data_buffer, final_path, cpc, commands>>

\* `if self.status != "error": self._update_status("completed", ...)`
SetCompleted(t) ==
    /\ pc[t] = "set_completed"
    /\ IF status # "error"
       THEN UpdateStatus("completed", <<"Download finished">>)
       ELSE UNCHANGED <<status, message>>
    /\ pc' = [pc EXCEPT ![t] = "finally"]
    /\ UNCHANGED <<opts, thread, stop_event, force_event, pause_event, segments, cursor,
                   total_bytes, output_path, ffmpeg_missing, fs, seg, payload, data_buffer,
                   final_path, exc, cpc, commands>>

\* `except DownloadError as exc: self._update_status("error", str(exc))`
Except(t) ==
    /\ pc[t] = "except"
    /\ UpdateStatus("error", exc[t])
    /\ exc' = [exc EXCEPT ![t] = NoMessage]
    /\ data_buffer' = [data_buffer EXCEPT ![t] = <<>>]
    /\ pc' = [pc EXCEPT ![t] = "finally"]
    /\ UNCHANGED <<opts, thread, stop_event, force_event, pause_event, segments, cursor,
                   total_bytes, output_path, ffmpeg_missing, fs, seg, payload, final_path,
                   cpc, commands>>

\* The `finally` block of _run; the thread ends.
Finally(t) ==
    /\ pc[t] = "finally"
    /\ thread' = IF thread = t THEN NoThread ELSE thread
    /\ pause_event' = TRUE
    /\ pc' = [pc EXCEPT ![t] = "dead"]
    /\ UNCHANGED <<opts, status, message, stop_event, force_event, segments, cursor,
                   total_bytes, output_path, ffmpeg_missing, fs, seg, payload, data_buffer,
                   final_path, exc, cpc, commands>>

Worker(t) ==
    \/ RunStart(t)
    \/ \E outcome \in LoadOutcomes : LoadPlaylist(t, outcome)
    \/ SetDownloading(t)
    \/ EnterDownload(t)
    \/ CheckStop(t)
    \/ CheckForce(t)
    \/ CheckPause(t)
    \/ PauseGate(t)
    \/ PauseWait(t)
    \/ WaitResumed(t)
    \/ FetchBegin(t)
    \/ \E outcome \in FetchOutcomes : FetchEnd(t, outcome)
    \/ Commit(t)
    \/ AppendPayload(t)
    \/ Advance(t)
    \/ Fail(t)
    \/ Flush(t)
    \/ FinalMove(t)
    \/ SetOutputPath(t)
    \/ RunCheck(t)
    \/ \E outcome \in FfmpegOutcomes : Convert(t, outcome)
    \/ SetCompleted(t)
    \/ Except(t)
    \/ Finally(t)

\* The steps of the commands, with the history they leave.
StartStep ==
    \/ /\ StartLocked
       /\ pauseHeld' = FALSE /\ pauseSeen' = FALSE
       /\ stopInWait' = (stopInWait /\ stop_event')
    \/ StartSpawn /\ UNCHANGED <<pauseHeld, pauseSeen, stopInWait>>
    \/ StartResume /\ UNCHANGED <<pauseHeld, pauseSeen, stopInWait>>

StopStep ==
    \/ /\ StopSignal
       /\ pauseHeld' = FALSE /\ pauseSeen' = FALSE
       /\ stopInWait' = (stopInWait \/ \E t \in Threads : pc[t] = "pause_wait")
    \/ StopWake /\ UNCHANGED <<pauseHeld, pauseSeen, stopInWait>>

PauseStep ==
    \/ /\ PauseLocked
       /\ pauseHeld' = (pauseHeld \/ IsAlive(thread))
       /\ UNCHANGED <<pauseSeen, stopInWait>>
    \/ PauseStatus /\ UNCHANGED <<pauseHeld, pauseSeen, stopInWait>>

\* A step of worker t; going through the pause gate is recorded.
WorkerHistory(t) ==
    /\ last' = "worker"
    /\ UNCHANGED <<pauseHeld, stopInWait>>
    /\ pauseSeen' = (pauseSeen \/ (pauseHeld /\ pc[t] = "pause_status"))

\* The commands that steer the worker.
ControlStep ==
    /\ \/ StartStep /\ last' = "start"
       \/ RequestForceSave /\ last' = "force" /\ UNCHANGED <<pauseHeld, pauseSeen, stopInWait>>
       \/ StopStep /\ last' = "stop"
       \/ PauseStep /\ last' = "pause"
    /\ UNCHANGED auxVars

RetryStep ==
    /\ \E i \in 0..(MaxSegments - 1) :
          RetrySegment(i) /\ last' = "retry" /\ UNCHANGED <<pauseHeld, pauseSeen, stopInWait>>
    /\ UNCHANGED auxVars

WorkerStep ==
    /\ \E t \in Threads : Worker(t) /\ WorkerHistory(t)
    /\ UNCHANGED auxVars

Next == ControlStep \/ RetryStep \/ WorkerStep

\* The task when no retry_segment command is ever issued.
NextNoRetry == ControlStep \/ WorkerStep

SpecNoRetry == Init /\ [][NextNoRetry]_vars

Spec == Init /\ [][Next]_vars

TypeOK ==
    /\ status \in {"ready", "preparing", "downloading", "paused"} \cup Terminal
    /\ thread \in Threads \cup {NoThread}
    /\ cursor \in 0..Len(segments)
    /\ output_path \in Paths

\* The worker when the server and ffmpeg never fail: the playlist is a media
\* playlist, every fetch succeeds, ffmpeg is installed and exits with 0.
WorkerNoFailure(t) ==
    \/ RunStart(t)
    \/ LoadPlaylist(t, "ok")
    \/ SetDownloading(t)
    \/ EnterDownload(t)
    \/ CheckStop(t)
    \/ CheckForce(t)
    \/ CheckPause(t)
    \/ PauseGate(t)
    \/ PauseWait(t)
    \/ WaitResumed(t)
    \/ FetchBegin(t)
    \/ FetchEnd(t, "ok")
    \/ Commit(t)
    \/ AppendPayload(t)
    \/ Advance(t)
    \/ Flush(t)
    \/ FinalMove(t)
    \/ SetOutputPath(t)
    \/ RunCheck(t)
    \/ Convert(t, "ok")
    \/ SetCompleted(t)
    \/ Finally(t)

\* The task when only start, pause and resume are issued and nothing fails.
NextPauseResume ==
    \/ StartStep /\ last' = "start" /\ UNCHANGED auxVars
    \/ PauseStep /\ last' = "pause" /\ UNCHANGED auxVars
    \/ \E t \in Threads : WorkerNoFailure(t) /\ WorkerHistory(t) /\ UNCHANGED auxVars

SpecPauseResume == Init /\ [][NextPauseResume]_vars

\* The task when start, pause, resume and retry_segment are issued, with the
\* scheduling the program runs under: the worker thread keeps running, every
\* request it sends returns or fails within its timeout, and a caller that
\* has entered start or pause goes on to the end of the call.
CommandLive ==
    /\ \/ StartStep /\ last' = "start"
       \/ PauseStep /\ last' = "pause"
    /\ UNCHANGED auxVars

NextLive == CommandLive \/ RetryStep \/ WorkerStep

SpecLive ==
    /\ Init /\ [][NextLive]_vars
    /\ WF_vars(WorkerStep)
    /\ WF_vars(cpc # "idle" /\ CommandLive)

\* A task that is constructed and never started.
TaskIdle == TaskInit /\ opts = [stream_to_disk |-> TRUE, output_format |-> "ts"]

TaskUntouched == UNCHANGED <<opts, taskVars, fs, workerVars, cpc, commands, last, pauseHeld,
                             pauseSeen, stopInWait>>

\* ------------------------------------------------- is_safe_url on its own
\* Any URL, and for a host name any answer of the resolver.
FilterInit ==
    /\ TaskIdle /\ ValidateIdle /\ ManagerIdle /\ PrepareIdle /\ ExtraIdle
    /\ url \in Urls
    /\ addr_info \in (IF url.hostname \in HostNames THEN AddrInfos ELSE {GaiError})
    /\ safe = NotCalled

IsSafeUrlCall ==
    /\ safe = NotCalled
    /\ safe' = Returned(is_safe_url(url, addr_info))
    /\ UNCHANGED <<url, addr_info, validateVars, registry, prepareVars, extraVars>>
    /\ TaskUntouched

NextFilter == IsSafeUrlCall

SpecFilter == FilterInit /\ [][NextFilter]_vars

\* ---------------------------------- DownloadTaskOptions.validate on its own
ValidateInit ==
    /\ TaskIdle /\ FilterIdle /\ ManagerIdle /\ PrepareIdle /\ ExtraIdle
    /\ options \in OptionSets
    /\ raised = NotCalled

ValidateCall ==
    /\ raised = NotCalled
    /\ raised' = Returned(validate(options))
    /\ UNCHANGED <<options, filterVars, registry, prepareVars, extraVars>>
    /\ TaskUntouched

NextValidate == ValidateCall

SpecValidate == ValidateInit /\ [][NextValidate]_vars

\* ------------------------------------------------------- DownloadManager
TaskIds == 1..MaxTasks

\* The option sets handed to create_task: acceptable ones and one for each
\* reason validate has to raise.
ManagerOptions ==
    {DefaultOptions,
     [DefaultOptions EXCEPT !.output_format = "mp4"],
     [DefaultOptions EXCEPT !.url = ""],
     [DefaultOptions EXCEPT !.output_format = "avi"],
     [DefaultOptions EXCEPT !.start_segment = Some(0)],
     [DefaultOptions EXCEPT !.start_segment = Some(2), !.end_segment = Some(1)]}

\* A task as the manager sees it: its options, and whether start has created
\* its thread.
ManagedTask(o) == [options |-> o, started |-> FALSE]

ManagerInit ==
    /\ TaskIdle /\ FilterIdle /\ ValidateIdle /\ ManagerIdle /\ PrepareIdle /\ ExtraIdle

\* DownloadManager.create_task
CreateTask(task_id, o) ==
    /\ registry' = [id \in DOMAIN registry \cup {task_id} |->
                       IF id = task_id THEN ManagedTask(o) ELSE registry[id]]
    /\ raised' = Returned(Passes)
    /\ UNCHANGED <<options, filterVars, prepareVars, extraVars>>
    /\ TaskUntouched

\* DownloadManager.start_task and, through DownloadTask.resume, resume_task:
\* get_task raises KeyError for an unknown id; DownloadTask.start of a task
\* without thread validates the options and creates the thread.
StartTask(task_id) ==
    /\ IF task_id \notin DOMAIN registry
       THEN raised' = Returned("KeyError") /\ UNCHANGED registry
       ELSE IF registry[task_id].started
       THEN raised' = Returned(Passes) /\ UNCHANGED registry
       ELSE /\ raised' = Returned(validate(registry[task_id].options))
            /\ registry' = [registry EXCEPT ![task_id].started =
                                validate(registry[task_id].options) = Passes]
    /\ UNCHANGED <<options, filterVars, prepareVars, extraVars>>
    /\ TaskUntouched

NextManager ==
    \/ \E task_id \in TaskIds, o \in ManagerOptions : CreateTask(task_id, o)
    \/ \E task_id \in TaskIds : StartTask(task_id)

SpecManager == ManagerInit /\ [][NextManager]_vars

\* ---------------------------------------------- _prepare_segments on its own
\* Any media playlist of up to MaxPosition + 1 segments, and any options that
\* start has validated.
PrepareInit ==
    /\ TaskIdle /\ FilterIdle /\ ManagerIdle /\ ExtraIdle
    /\ options \in {o \in OptionSets : validate(o) = Passes}
    /\ raised = NotCalled
    /\ playlist \in {MediaPlaylist(n) : n \in 0..(MaxPosition + 1)}
    /\ media_sequence \in {0, 1, 42}
    /\ key \in PlaylistKeys
    /\ prepared = NotCalled

PrepareSegments ==
    /\ prepared = NotCalled
    /\ prepared' = Returned(PrepareFrom(0, playlist, options, <<>>))
    /\ UNCHANGED <<playlist, media_sequence, key, filterVars, validateVars, registry, extraVars>>
    /\ TaskUntouched

NextPrepare == PrepareSegments

SpecPrepare == PrepareInit /\ [][NextPrepare]_vars

\* --------------------------------------- _download_single_segment on its own
\* response.content of a segment: the server sends the segments of a keyed
\* playlist encrypted, the others in the clear.
Body(segment) == IF segment.key_uri # "" THEN <<"ciphertext">> ELSE <<"plaintext">>

\* AES.new(key, AES.MODE_CBC, iv).decrypt(payload)
AES_decrypt(content) ==
    [k \in DOMAIN content |-> IF content[k] = "ciphertext" THEN "plaintext" ELSE "garbage"]

\* DownloadTask._download_single_segment with _resolve_key: what the call
\* returns or raises for a prepared segment, options.decrypt, the status of
\* the segment response and the status of the key response.
download_single_segment(segment, decrypt, status_code, key_status) ==
    IF status_code >= 400
    THEN [outcome |-> "http_error", payload |-> <<>>]
    ELSE LET resolved == decrypt /\ segment.key_uri # ""
         IN IF resolved /\ key_status >= 400
            THEN [outcome |-> "key_failed", payload |-> <<>>]
            ELSE IF resolved /\ segment.iv # <<>> /\ segment.method = "AES-128"
            THEN [outcome |-> "ok", payload |-> AES_decrypt(Body(segment))]
            ELSE [outcome |-> "ok", payload |-> Body(segment)]

\* Any segment that _prepare_segments can prepare under any key, with any
\* answer of the two servers.
SingleInit ==
    /\ TaskIdle /\ FilterIdle /\ ValidateIdle /\ ManagerIdle
    /\ AppIdle /\ start2 = NoSecondCall /\ shared = NoShared
    /\ playlist = <<>> /\ prepared = NotCalled /\ media_sequence = 0
    /\ key \in PlaylistKeys
    /\ single_segment \in [segment : {SegmentKey(idx) : idx \in 0..MaxPosition},
                            decrypt : BOOLEAN, status_code : {200, 404},
                            key_status : {200, 404}, result : {NotCalled},
                            temp : {<<>>}]

\* `payload = self._download_single_segment(segment)`
DownloadSingleSegment ==
    /\ single_segment.result = NotCalled
    /\ single_segment' =
          [single_segment EXCEPT !.result =
              Returned(download_single_segment(single_segment.segment,
                                               single_segment.decrypt,
                                               single_segment.status_code,
                                               single_segment.key_status))]

\* `self._append_to_temp(payload)` once the call has returned.
AppendSingle ==
    /\ single_segment.result # NotCalled
    /\ single_segment.result[1].outcome = "ok"
    /\ single_segment.temp = <<>>
    /\ single_segment' = [single_segment EXCEPT !.temp = @ \o single_segment.result[1].payload]

NextSingle ==
    /\ DownloadSingleSegment \/ AppendSingle
    /\ UNCHANGED <<filterVars, validateVars, registry, prepareVars, appVars, start2, shared>>
    /\ TaskUntouched

SpecSingle == SingleInit /\ [][NextSingle]_vars

\* ------------------------------------- the tasks of one manager, one output_dir
\* Titles as the characters they are made of.
Titles == {<<"a">>, <<"b">>, <<"a", " ">>, <<"a", "/">>, <<"a", "_">>, <<>>}

\* str.strip
RECURSIVE strip(_)
strip(title) ==
    IF title = <<>> THEN <<>>
    ELSE IF Head(title) = " " THEN strip(Tail(title))
    ELSE IF title[Len(title)] = " " THEN strip(SubSeq(title, 1, Len(title) - 1))
    ELSE title

\* DownloadTask._make_safe_title; no title here reaches the 80 characters
\* of the final cut.
make_safe_title(title) ==
    LET candidate == IF strip(title) # <<>> THEN strip(title) ELSE <<"v", "i", "d", "e", "o">>
    IN [k \in 1..Len(candidate) |->
           IF candidate[k] \in {"a", "b", "v", "i", "d", "e", "o", "-", "_"}
           THEN candidate[k] ELSE "_"]

\* `self.temp_path = output_dir / f"{task_id}.download"`
temp_path(task_id) == <<ToString(task_id), ".download">>

\* `self.ts_path = output_dir / f"{safe_title}.ts"`
ts_path(title) == make_safe_title(title) \o <<".ts">>

\* Every task id holds a started ts task of some title; output_dir is empty.
SharedInit ==
    /\ TaskIdle /\ FilterIdle /\ ValidateIdle /\ ManagerIdle /\ PrepareIdle
    /\ AppIdle /\ start2 = NoSecondCall /\ single_segment = NoSingle
    /\ shared \in [tasks : [TaskIds -> [title : Titles, status : {"downloading"}, cursor : {0}]],
                    files : {[p \in {temp_path(id) : id \in TaskIds}
                                    \cup {ts_path(title) : title \in Titles} |-> NoFile]}]

\* A segment of task_id is fetched and appended to its temporary file.
AppendShared(task_id) ==
    /\ shared.tasks[task_id].status = "downloading"
    /\ shared.tasks[task_id].cursor < MaxSegments
    /\ shared' = [shared EXCEPT
                     !.tasks[task_id].cursor = @ + 1,
                     !.files[temp_path(task_id)] = File(@.data \o <<task_id>>)]

\* The end of _download_segments for a task that was neither stopped nor
\* forced: final_path is ts_path; it is unlinked if it exists, the temporary
\* file is moved onto it, and _run sets the status to completed.
FinaliseShared(task_id) ==
    /\ shared.tasks[task_id].status = "downloading"
    /\ shared.tasks[task_id].cursor = MaxSegments
    /\ LET final_path_ == ts_path(shared.tasks[task_id].title)
           temp == temp_path(task_id)
       IN shared' = [shared EXCEPT
                        !.tasks[task_id].status = "completed",
                        !.files = IF shared.files[temp].exists
                                  THEN [@ EXCEPT ![final_path_] = shared.files[temp],
                                                 ![temp] = NoFile]
                                  ELSE [@ EXCEPT ![final_path_] = NoFile]]

NextShared ==
    /\ \E task_id \in TaskIds : AppendShared(task_id) \/ FinaliseShared(task_id)
    /\ UNCHANGED <<filterVars, validateVars, registry, prepareVars, appVars, start2,
                   single_segment>>
    /\ TaskUntouched

SpecShared == SharedInit /\ [][NextShared]_vars

\* ------------------------------------------ two callers of start at once
\* DownloadTask.start called by a second thread of the application, the
\* `with self._lock:` block.
SecondStartLocked ==
    /\ start2.pc = "idle"
    /\ commands < MaxCommands
    /\ commands' = commands + 1
    /\ IF IsAlive(thread)
       THEN /\ IF ~pause_event
               THEN pause_event' = TRUE /\ start2' = [start2 EXCEPT !.pc = "start_resume"]
               ELSE UNCHANGED <<pause_event, start2>>
            /\ UNCHANGED <<stop_event, force_event, thread, pc>>
       ELSE IF status \in {"completed", "forced"}
            THEN UNCHANGED <<pause_event, start2, stop_event, force_event, thread, pc>>
            ELSE \E t \in Threads :
                    /\ pc[t] = "unborn"
                    /\ \A u \in Threads : u < t => pc[u] # "unborn"
                    /\ stop_event' = FALSE
                    /\ force_event' = FALSE
                    /\ pause_event' = TRUE
                    /\ thread' = t
                    /\ pc' = [pc EXCEPT ![t] = "created"]
                    /\ start2' = [pc |-> "start_spawn", thread_to_start |-> t]
    /\ UNCHANGED <<opts, status, message, segments, cursor, total_bytes, output_path,
                   ffmpeg_missing, fs, seg, payload, data_buffer, final_path, exc, cpc>>

\* The second caller's `thread_to_start.start()`.
SecondStartSpawn ==
    /\ start2.pc = "start_spawn"
    /\ pc' = [pc EXCEPT ![start2.thread_to_start] = "run_start"]
    /\ start2' = NoSecondCall
    /\ UNCHANGED <<opts, taskVars, fs, seg, payload, data_buffer, final_path, exc, cpc, commands>>

\* The second caller's `if resume: self._update_status("downloading", ...)`.
SecondStartResume ==
    /\ start2.pc = "start_resume"
    /\ UpdateStatus("downloading", <<"Resuming download">>)
    /\ start2' = NoSecondCall
    /\ UNCHANGED <<opts, thread, stop_event, force_event, pause_event, segments, cursor,
                   total_bytes, output_path, ffmpeg_missing, fs, workerVars, cpc, commands>>

\* The steps of the second caller, with the history they leave.
SecondStartStep ==
    /\ \/ /\ SecondStartLocked
          /\ pauseHeld' = FALSE /\ pauseSeen' = FALSE
          /\ stopInWait' = (stopInWait /\ stop_event')
       \/ SecondStartSpawn /\ UNCHANGED <<pauseHeld, pauseSeen, stopInWait>>
       \/ SecondStartResume /\ UNCHANGED <<pauseHeld, pauseSeen, stopInWait>>
    /\ last' = "start"
    /\ UNCHANGED <<filterVars, validateVars, registry, prepareVars, appVars, single_segment,
                   shared>>

\* The first caller starts the thread it has created itself, not the one the
\* second caller holds in thread_to_start.
OwnThreadStarted ==
    (cpc = "start_spawn" /\ start2.pc = "start_spawn")
        => pc'[start2.thread_to_start] = pc[start2.thread_to_start]

\* The task with two threads of the application issuing commands, the second
\* one start (or resume) only.  Two live workers would share the segment
\* objects and the cursor; a behaviour is followed up to the first state that
\* has two of them and no further.
NextTwoCallers ==
    /\ Cardinality({t \in Threads : IsAlive(t)}) <= 1
    /\ \/ ControlStep /\ OwnThreadStarted
       \/ SecondStartStep
       \/ WorkerStep

SpecTwoCallers == Init /\ [][NextTwoCallers]_vars

\* ------------------------------------------- DownloadManager.delete_task
\* The id under which the manager holds the modelled task.
ThisTask == 1

\* The manager after create_task for every id; ThisTask has the options of
\* the modelled task.
DeleteInit ==
    /\ TaskInit /\ FilterIdle /\ ValidateIdle /\ PrepareIdle /\ ExtraIdle
    /\ registry = [id \in TaskIds |->
                      ManagedTask([DefaultOptions EXCEPT !.output_format = opts.output_format])]

\* get_task: KeyError for an id the registry does not hold.
Registered == ThisTask \in DOMAIN registry

\* delete_task: get_task, then `self._stop_event.set()` of task.stop().
DeleteSignal ==
    /\ cpc = "idle"
    /\ commands < MaxCommands
    /\ commands' = commands + 1
    /\ IF Registered
       THEN stop_event' = TRUE /\ cpc' = "delete_wake"
       ELSE UNCHANGED <<stop_event, cpc>>
    /\ UNCHANGED <<opts, status, message, thread, force_event, pause_event, segments, cursor,
                   total_bytes, output_path, ffmpeg_missing, fs, workerVars, registry>>

\* delete_task: `self._pause_event.set()` of task.stop(); the join that
\* follows returns after a second at the latest, with the worker dead or alive.
DeleteWake ==
    /\ cpc = "delete_wake"
    /\ pause_event' = TRUE
    /\ cpc' = "delete_cleanup"
    /\ UNCHANGED <<opts, status, message, thread, stop_event, force_event, segments, cursor,
                   total_bytes, output_path, ffmpeg_missing, fs, workerVars, commands, registry>>

\* DownloadTask.cleanup(remove_outputs): the temp file goes, and with
\* remove_outputs the files at ts_path and at output_path.
DeleteCleanup(remove_outputs) ==
    /\ cpc = "delete_cleanup"
    /\ fs' = [p \in Paths |->
                 IF p = "temp" \/ (remove_outputs /\ p \in {"ts", output_path})
                 THEN NoFile ELSE fs[p]]
    /\ cpc' = "delete_pop"
    /\ UNCHANGED <<opts, taskVars, workerVars, commands, registry>>

\* delete_task: `self._tasks.pop(task_id, None)`.
DeletePop ==
    /\ cpc = "delete_pop"
    /\ registry' = [id \in DOMAIN registry \ {ThisTask} |-> registry[id]]
    /\ cpc' = "idle"
    /\ UNCHANGED <<opts, taskVars, fs, workerVars, commands>>

\* The steps of delete_task, with the history they leave.
DeleteStep ==
    /\ \/ /\ DeleteSignal
          /\ pauseHeld' = FALSE /\ pauseSeen' = FALSE
          /\ stopInWait' = (stopInWait \/ (Registered /\ \E t \in Threads : pc[t] = "pause_wait"))
       \/ DeleteWake /\ UNCHANGED <<pauseHeld, pauseSeen, stopInWait>>
       \/ (\E remove_outputs \in BOOLEAN : DeleteCleanup(remove_outputs))
             /\ UNCHANGED <<pauseHeld, pauseSeen, stopInWait>>
       \/ DeletePop /\ UNCHANGED <<pauseHeld, pauseSeen, stopInWait>>
    /\ last' = "delete"
    /\ UNCHANGED <<filterVars, validateVars, prepareVars, extraVars>>

\* The task driven through the manager: every command starts with get_task,
\* which raises KeyError once the task is deleted.
NextDelete ==
    \/ Registered /\ ControlStep
    \/ Registered /\ RetryStep
    \/ WorkerStep
    \/ DeleteStep

SpecDelete == DeleteInit /\ [][NextDelete]_vars

\* ------------------------------------------------- app.py: POST /download
\* The JSON bodies posted: a url (none, one of two public playlists, or one
\* on the loopback address) and a filename (none given, or a name).
SubmittedUrls ==
    {NoUrl,
     [hostname |-> "cdn.example", path |-> "a"],
     [hostname |-> "cdn.example", path |-> "b"],
     [hostname |-> "127.0.0.1", path |-> "a"]}

SubmittedFilenames == {"", "video", "video.mp4", "other.mp4"}

\* start_download, what it makes of the filename: secure_filename, the default
\* for an empty name, and the .mp4 suffix.
NormalizedFilename(f) == IF f \in {"", "video"} THEN "video.mp4" ELSE f

\* str(hash(url + filename)): a function of the concatenated text alone.  Two
\* different texts are given different values here.
TaskIdOf(u, f) == <<u.hostname, u.path, f>>

\* One value of download_status.
StatusRecord(s, progress, download_url) ==
    [status |-> s, progress |-> progress, download_url |-> download_url]

\* download_status[task_id] = record
SetStatus(task_id, record) ==
    download_status' = [id \in DOMAIN download_status \cup {task_id} |->
                           IF id = task_id THEN record ELSE download_status[id]]

\* start_download: 400 without a url or with a url the filter rejects;
\* otherwise the task id is computed and the thread is started.
StartDownload(u, f) ==
    /\ Len(downloads) < MaxSubmissions
    /\ IF u = NoUrl \/ ~is_safe_url(u, Resolver(u.hostname))
       THEN UNCHANGED downloads
       ELSE LET filename == NormalizedFilename(f)
            IN downloads' = Append(downloads,
                                   [url |-> u, filename |-> filename,
                                    task_id |-> TaskIdOf(u, filename), pc |-> "begin"])
    /\ UNCHANGED <<download_status, app_files>>

\* download_m3u8, the first assignment to download_status[task_id].
DownloadBegin(k) ==
    /\ downloads[k].pc = "begin"
    /\ SetStatus(downloads[k].task_id, StatusRecord("downloading", 0, None))
    /\ downloads' = [downloads EXCEPT ![k].pc = "playlist"]
    /\ UNCHANGED app_files

\* download_m3u8 from the playlist request to `open(temp_output_path, 'wb')`:
\* a variant playlist ends the thread with status error; otherwise the .part
\* file is created or truncated.
DownloadOpen(k, outcome) ==
    /\ downloads[k].pc = "playlist"
    /\ IF outcome = "variant"
       THEN /\ SetStatus(downloads[k].task_id, StatusRecord("error", 0, None))
            /\ downloads' = [downloads EXCEPT ![k].pc = "done"]
            /\ UNCHANGED app_files
       ELSE /\ app_files' = [app_files EXCEPT ![downloads[k].filename].part = File(<<>>)]
            /\ downloads' = [downloads EXCEPT ![k].pc = "segment"]
            /\ UNCHANGED download_status
    /\ outcome \in {"ok", "variant"}

\* download_m3u8, the loop for the one segment of the playlist:
\* `output_file.write(segment_data)` and the progress.
DownloadWrite(k) ==
    /\ downloads[k].pc = "segment"
    /\ app_files' = [app_files EXCEPT ![downloads[k].filename].part = File(@.data \o <<k>>)]
    /\ SetStatus(downloads[k].task_id, StatusRecord("downloading", 100, None))
    /\ downloads' = [downloads EXCEPT ![k].pc = "replace"]

\* download_m3u8, `os.replace(temp_output_path, output_path)` and the last
\* assignment to download_status[task_id].
DownloadReplace(k) ==
    /\ downloads[k].pc = "replace"
    /\ LET f == downloads[k].filename
       IN IF app_files[f].part.exists
          THEN /\ app_files' = [app_files EXCEPT ![f] = [part |-> NoFile, output |-> @.part]]
               /\ SetStatus(downloads[k].task_id, StatusRecord("completed", 100, Some(f)))
          ELSE /\ UNCHANGED app_files
               /\ SetStatus(downloads[k].task_id,
                            StatusRecord("error", download_status[downloads[k].task_id].progress,
                                         download_status[downloads[k].task_id].download_url))
    /\ downloads' = [downloads EXCEPT ![k].pc = "done"]

NextApp ==
    /\ \/ \E u \in SubmittedUrls, f \in SubmittedFilenames : StartDownload(u, f)
       \/ \E k \in 1..Len(downloads) : DownloadBegin(k)
       \/ \E k \in 1..Len(downloads), outcome \in {"ok", "variant"} : DownloadOpen(k, outcome)
       \/ \E k \in 1..Len(downloads) : DownloadWrite(k)
       \/ \E k \in 1..Len(downloads) : DownloadReplace(k)
    /\ UNCHANGED <<filterVars, validateVars, registry, prepareVars, start2, single_segment,
                   shared>>
    /\ TaskUntouched

AppInit == TaskIdle /\ FilterIdle /\ ValidateIdle /\ ManagerIdle /\ PrepareIdle /\ ExtraIdle

SpecApp == AppInit /\ [][NextApp]_vars

\* ----------------------------------------------------------------- claims
\* Every thread of the task has finished or was never started, and the
\* caller is between two commands.
Quiescent == cpc = "idle" /\ \A t \in Threads : ~IsAlive(t)

\* C1: once the status is completed, error, stopped or forced, no step of a
\* command or of the worker changes it again.
C1_TerminalStatusIsFinal == [][(status \in Terminal) => (status' = status)]_vars

\* A step that is the locked section of a start (or resume) call.
StartCalled == cpc = "idle" /\ last' = "start"

\* What a start call must leave alone to be a no-op: the snapshot, the three
\* events and the thread objects; and the call has returned.
StartDidNothing ==
    /\ Snapshot' = Snapshot
    /\ UNCHANGED <<stop_event, force_event, pause_event, thread, pc>>
    /\ cpc' = "idle"

C3_TotalBytesIsSumOfCompleted == total_bytes = SumSizes(segments)

RECURSIVE PayloadPrefix(_)
\* The bodies of the segments 0 .. n-1, in segment order, each once.
PayloadPrefix(n) == IF n = 0 THEN <<>> ELSE PayloadPrefix(n - 1) \o Payload(n - 1)

\* The bytes worker t has gathered so far: the temp file when streaming to
\* disk, the chunks of its data_buffer otherwise.
Gathered(t) == IF opts.stream_to_disk THEN fs["temp"].data ELSE Flatten(data_buffer[t])

\* C4: whenever the worker is at the checkpoint before a segment, the bytes
\* gathered so far are the in-order concatenation of segments 0 .. cursor-1;
\* in particular a retry_segment that rewinds the cursor discards the bytes
\* of the segments at and after the new cursor.
C4_GatheredIsCursorPrefix ==
    \A t \in Threads : pc[t] = "checkpoint" => Gathered(t) = PayloadPrefix(cursor)

\* C5: when the worker has exited with the task forced after k segments
\* (0 < k < total), <title>.partial.ts exists and holds exactly the bytes of
\* the first k segments in order, whatever stream_to_disk is.
C5_ForcedSavesCompletedPrefix ==
    (Quiescent /\ status = "forced" /\ 0 < cursor /\ cursor < Len(segments))
        => (fs["partial"].exists /\ fs["partial"].data = PayloadPrefix(cursor))

\* C6: the file named by output_path exists if and only if the status is
\* completed or forced.
C6_OutputExistsIffDone == fs[output_path].exists <=> status \in {"completed", "forced"}

\* C7: when a ts task is completed and no retry_segment was issued, the .ts
\* file is the concatenation of all segment bodies in order, each once.
C7_CompletedFileIsConcatenation ==
    (status = "completed" /\ opts.output_format = "ts")
        => (fs["ts"].exists /\ fs["ts"].data = PayloadPrefix(MaxSegments))

\* The finished output of a run in which nothing failed and nothing was issued
\* but start: all segments in order, remuxed for an mp4 task.
FullOutput ==
    IF opts.output_format = "ts"
    THEN fs["ts"].exists /\ fs["ts"].data = PayloadPrefix(MaxSegments)
    ELSE fs["mp4"].exists /\ fs["mp4"].data = Remux(PayloadPrefix(MaxSegments))

\* C8: a run with pauses, each followed by a resume, ends as the run without
\* them does: once the worker has exited and no pause is outstanding, the
\* status is completed and the final file is the full output.
C8_PauseResumeSameResult ==
    (Quiescent /\ ~pauseHeld /\ \E t \in Threads : pc[t] = "dead")
        => (status = "completed" /\ FullOutput)

\* pause has returned after finding a live worker, and no start, resume or
\* stop has been issued since.
PauseInForce == pauseHeld /\ cpc = "idle"

\* A step in which a worker leaves the pause gate towards the fetch of a
\* segment.
PassesPauseGate ==
    \E t \in Threads :
        \/ pc[t] = "chk_pause" /\ pc'[t] = "fetch_begin"
        \/ pc[t] = "pause_wait" /\ pc'[t] = "wait_resumed"

\* C9 as stated: while a pause is in force the worker does not pass the pause
\* gate, and once it has reached the gate the status is paused and stays so.
C9_PausedUntilResumed ==
    [][/\ PauseInForce => ~PassesPauseGate
       /\ (PauseInForce' /\ pauseSeen') => (status' = "paused")]_vars

\* C9 amended: the same, as long as neither a cancel nor a force-save is
\* pending: the worker honours those before the pause, and they end it with
\* status stopped or forced.
C9_PausedUntilResumedOrEnded ==
    [][/\ PauseInForce => ~PassesPauseGate
       /\ (PauseInForce' /\ pauseSeen' /\ ~stop_event' /\ ~force_event')
              => (status' = "paused")]_vars

\* The worker is blocked in the pause wait of a pause that has returned.
C9_Witness_BlockedInWait ==
    /\ PauseInForce /\ pauseSeen /\ ~stop_event /\ ~force_event
    /\ status = "paused"
    /\ \E t \in Threads : pc[t] = "pause_wait" /\ cursor > 0

\* C10: after a cancel signalled while the worker sat in the pause wait, the
\* worker leaves the wait only to stop: it is never again on the way to, or
\* in, the fetch and append of a segment.
C10_CancelInPauseWaitFetchesNothing ==
    stopInWait =>
        \A t \in Threads :
            pc[t] \notin {"wait_resumed", "fetch_begin", "fetch_end", "commit", "append", "advance"}

\* C11: whenever a worker exits with the task stopped or in error, the temp
\* file <task_id>.download no longer exists.
C11_NoTempAfterStoppedOrError ==
    [][\A t \in Threads :
          (pc[t] = "finally" /\ pc'[t] = "dead" /\ status' \in {"stopped", "error"})
              => ~fs'["temp"].exists]_vars

\* The filter's verdict on a URL of the network the task downloads from.
Safe(u) == is_safe_url(u, Resolver(u.hostname))

\* C12: no request of a download goes to a URL the safety filter calls
\* unsafe: neither the playlist request nor a segment request is sent to such
\* a URL, and a segment with an unsafe URL sends the worker to the task's
\* error exit with nothing of it fetched.
C12_NoRequestToUnsafeUrl ==
    [][\A t \in Threads :
          /\ (pc[t] = "load" /\ pc'[t] # "load") => Safe(PlaylistUrl)
          /\ (pc[t] = "fetch_begin" /\ pc'[t] # "fetch_begin") =>
                 IF Safe(SegmentUrl(cursor)) THEN pc'[t] = "fetch_end" ELSE pc'[t] = "except"]_vars

\* The entries of the resolver's answer that carry a sockaddr, as a set; for a
\* host that is an address itself, that address.
ResolutionSet ==
    IF url.hostname \in Addresses THEN {url.hostname}
    ELSE IF url.hostname = NoHost \/ addr_info.gaierror THEN {}
    ELSE {addr_info.info[k][1] : k \in {j \in 1..Len(addr_info.info) : addr_info.info[j] # <<>>}}

\* Loopback, link-local, private or reserved.
Forbidden(a) == is_loopback(a) \/ is_link_local(a) \/ is_private(a) \/ is_reserved(a)

PublicAddresses == {"8.8.8.8", "2001:4860::1"}

\* C13: is_safe_url returns true only for a host with a non-empty resolution
\* set without any loopback, link-local, private or reserved address; one such
\* address among several, an empty host, a resolver failure, an unparsable
\* address and an empty resolution set each give false, and a host resolving
\* only to public addresses gives true.
C13_SafeOnlyIfAllAddressesPass ==
    safe # NotCalled =>
        /\ safe = Returned(TRUE) =>
               /\ ResolutionSet # {}
               /\ ResolutionSet \subseteq Addresses
               /\ \A a \in ResolutionSet : ~Forbidden(a)
        /\ (\E a \in ResolutionSet \cap Addresses : Forbidden(a)) => safe = Returned(FALSE)
        /\ url.hostname = NoHost => safe = Returned(FALSE)
        /\ (url.hostname \in HostNames /\ addr_info.gaierror) => safe = Returned(FALSE)
        /\ ~(ResolutionSet \subseteq Addresses) => safe = Returned(FALSE)
        /\ ResolutionSet = {} => safe = Returned(FALSE)
        /\ (ResolutionSet # {} /\ ResolutionSet \subseteq PublicAddresses) => safe = Returned(TRUE)

\* A host name with one forbidden and one public address was rejected, and an
\* IPv6-only public host would be accepted.
C13_Witness_MixedAnswerRejected ==
    /\ safe = Returned(FALSE)
    /\ url.hostname \in HostNames
    /\ addr_info = Answer(<< <<"8.8.8.8">>, <<"10.0.0.1">> >>)
    /\ is_safe_url(url, Answer(<< <<"2001:4860::1">> >>))

\* C14: is_safe_url returns false for every URL whose host is, or resolves to
\* a set containing, a multicast address.
C14_MulticastIsUnsafe ==
    (safe # NotCalled /\ \E a \in ResolutionSet \cap Addresses : is_multicast(a))
        => safe = Returned(FALSE)

\* The messages of the errors the setup phase raises.
SetupMessages == {VariantMessage, EmptyMessage}

C16_CreateTaskValidates ==
    [][/\ \A task_id \in TaskIds, o \in ManagerOptions :
             (CreateTask(task_id, o) /\ validate(o) # Passes) =>
                 (registry' = registry /\ raised' = Returned(validate(o)))
       /\ \A task_id \in DOMAIN registry' : validate(registry'[task_id].options) = Passes
       /\ \A task_id \in TaskIds :
             StartTask(task_id) => raised' \in {Returned(Passes), Returned("KeyError")}]_vars

\* What the options must not be: no url, a format other than ts and mp4, a
\* start_segment below 1, or an end_segment below the start_segment.
InvalidOptions(o) ==
    \/ o.url = ""
    \/ o.output_format # "ts" /\ o.output_format # "mp4"
    \/ \E a \in 0..MaxPosition : o.start_segment = Some(a) /\ a < 1
    \/ \E a, b \in 0..MaxPosition :
          o.start_segment = Some(a) /\ o.end_segment = Some(b) /\ b < a

\* C17: validate raises a validation error exactly for those options, accepts
\* all others, and leaves the options as they were.
C17_ValidateRaisesExactlyOnInvalid ==
    [][(raised = NotCalled /\ raised' # NotCalled) =>
          /\ (raised' # Returned(Passes)) <=> InvalidOptions(options)
          /\ options' = options]_vars

\* validate has raised for a range whose end lies before its start, and it
\* accepts the options that only name url and title.
C17_Witness_InvertedRange ==
    /\ raised = Returned("end_segment must be greater or equal to start_segment")
    /\ options.start_segment = Some(2) /\ options.end_segment = Some(1)
    /\ validate(DefaultOptions) = Passes

\* The 1-based places of the playlist the bounds select: from a (1 when
\* start_segment is not set) to the smaller of b and the playlist's length
\* (the length when end_segment is not set).
FirstPlace == IF options.start_segment = None THEN 1 ELSE options.start_segment[1]

LastPlace ==
    IF options.end_segment = None \/ options.end_segment[1] > Len(playlist)
    THEN Len(playlist) ELSE options.end_segment[1]

SelectedPlaces == IF LastPlace < FirstPlace THEN 0 ELSE LastPlace - FirstPlace + 1

\* C18: for bounds that are unset or 1-based places, the prepared list is
\* exactly the playlist's segments at the places FirstPlace .. LastPlace, in
\* playlist order, with the indexes 0, 1, 2, ...
C18_PreparedIsSelectedRange ==
    (/\ prepared # NotCalled
     /\ options.start_segment # Some(0)
     /\ options.end_segment # Some(0))
        => /\ Len(prepared[1]) = SelectedPlaces
           /\ \A k \in 1..Len(prepared[1]) :
                 /\ prepared[1][k].index = k - 1
                 /\ prepared[1][k].url = playlist[FirstPlace + k - 1]

\* start_segment = end_segment = 1 on the longest playlist has given one
\* segment, the first.
C18_Witness_FirstSegmentOnly ==
    /\ options.start_segment = Some(1) /\ options.end_segment = Some(1)
    /\ Len(playlist) = MaxPosition + 1
    /\ prepared # NotCalled
    /\ Len(prepared[1]) = 1 /\ prepared[1][1].index = 0 /\ prepared[1][1].url = 1

\* C19: when no retry_segment is issued, a fetch that fails with a status
\* >= 400 increments the segment's retries, marks it failed with the error
\* text, and leaves cursor and files alone; the worker raises the task error
\* exactly when retries then exceeds max_retries and otherwise goes round the
\* loop to the same segment, so that a segment is fetched at most
\* max_retries + 1 times, always with every later segment untouched, and the
\* raised error becomes the task's status.
C19_FailedFetchIsRetriedToTheLimit ==
    [][\A t \in Threads :
          /\ (pc[t] = "fail" /\ pc'[t] # "fail") =>
                 /\ seg[t] = cursor /\ cursor' = cursor /\ fs' = fs
                 /\ segments'[cursor + 1].retries = segments[cursor + 1].retries + 1
                 /\ segments'[cursor + 1].status = "failed"
                 /\ segments'[cursor + 1].error = HttpError
                 /\ IF segments'[cursor + 1].retries > MaxRetries
                    THEN /\ pc'[t] = "except"
                         /\ segments'[cursor + 1].retries = MaxRetries + 1
                         /\ exc'[t] = <<"Segment failed", cursor, MaxRetries + 1, HttpError>>
                    ELSE pc'[t] = "checkpoint"
          /\ (pc[t] = "fetch_begin" /\ pc'[t] = "fetch_end") =>
                 /\ segments[cursor + 1].retries <= MaxRetries
                 /\ \A j \in (cursor + 2)..Len(segments) : segments[j] = NewSegment
          /\ (pc[t] = "except" /\ Head(exc[t]) = "Segment failed" /\ pc'[t] # "except") =>
                 (status' = "error" /\ message' = exc[t])]_vars

\* The first segment has failed max_retries + 1 times: the task is in error
\* with that segment's error, the cursor has not moved and the next segment
\* is as it was prepared.
C19_Witness_RetriesExhausted ==
    /\ status = "error"
    /\ message = <<"Segment failed", 0, MaxRetries + 1, HttpError>>
    /\ cursor = 0
    /\ segments[1] = [status |-> "failed", size |-> 0, retries |-> MaxRetries + 1,
                       error |-> HttpError]
    /\ segments[2] = NewSegment
    /\ Quiescent

\* C20: every recoverable failure of a segment's fetch (status >= 400,
\* connection failure or timeout, failure of the key request, failure of the
\* cipher) is retried: while the segment's retries is below max_retries, the
\* end of a fetch never takes the worker to the task's error exit.
C20_EveryFetchFailureIsRetried ==
    [][\A t \in Threads :
          (pc[t] = "fetch_end" /\ pc'[t] # "fetch_end"
              /\ segments[seg[t] + 1].retries < MaxRetries)
                  => pc'[t] \in {"commit", "fail"}]_vars

\* The download_m3u8 thread of submission k has not finished.
Running(k) == downloads[k].pc # "done"

\* C21: every submission is given its own task id, identical payloads
\* included, so that no two running downloads write the same status record or
\* the same temporary file.
C21_EverySubmissionHasItsOwnTaskId ==
    \A i, j \in 1..Len(downloads) :
        i # j =>
            /\ downloads[i].task_id # downloads[j].task_id
            /\ (Running(i) /\ Running(j)) => downloads[i].filename # downloads[j].filename

OutputFiles == {"ts", "partial", "mp4"}

\* C22: delete_task removes the registry entry of the task and of no other
\* task, after which no command reaches the task any more; with
\* remove_files = false the output files (.ts, .partial.ts, .mp4) are left as
\* they are, and with remove_files = true none of them exists afterwards.
C22_DeleteRemovesEntryAndFiles ==
    [][/\ DeletePop =>
             /\ ThisTask \notin DOMAIN registry'
             /\ \A id \in TaskIds \ {ThisTask} : id \in DOMAIN registry' /\ registry'[id] = registry[id]
       /\ ~Registered => (~Registered' /\ last' \in {"worker", "delete"} /\ cpc' = "idle")
       /\ DeleteCleanup(FALSE) => \A p \in OutputFiles : fs'[p] = fs[p]
       /\ DeleteCleanup(TRUE) => \A p \in OutputFiles : ~fs'[p].exists]_vars

\* Every segment of the prepared list is completed.
AllCompleted == \A i \in 1..Len(segments) : segments[i].status = "completed"

\* ffmpeg is asked to convert: the .ts file is there and the task is not forced.
Converting(t) == pc[t] = "convert" /\ status # "forced" /\ fs["ts"].exists

\* C23: the worker goes to the remux step only for an mp4 task whose segments
\* are all completed and which is neither forced nor stopped; without ffmpeg
\* the task becomes completed with ffmpeg_missing set and output_path naming
\* the existing .ts file; a failing ffmpeg takes the worker to the error exit,
\* where the status becomes error; a successful one leaves the .mp4 as
\* output_path, removes the .ts, and the status becomes completed.
C23_RemuxOnlyAfterFullDownload ==
    [][\A t \in Threads :
          /\ (pc[t] # "convert" /\ pc'[t] = "convert") =>
                 /\ opts.output_format = "mp4"
                 /\ AllCompleted
                 /\ status \notin {"forced", "stopped"}
                 /\ ~fs["partial"].exists
          /\ (Converting(t) /\ Convert(t, "missing")) =>
                 /\ ffmpeg_missing' /\ output_path' = "ts" /\ fs'["ts"].exists
                 /\ status' = "completed" /\ pc'[t] = "set_completed"
          /\ (Converting(t) /\ Convert(t, "fail")) => (pc'[t] = "except" /\ status' # "completed")
          /\ (pc[t] = "except" /\ exc[t] = <<"ffmpeg failed">> /\ pc'[t] # "except") =>
                 status' = "error"
          /\ (Converting(t) /\ Convert(t, "ok")) =>
                 /\ output_path' = "mp4" /\ fs'["mp4"].exists /\ ~fs'["ts"].exists
                 /\ pc'[t] = "set_completed"
          /\ (pc[t] = "set_completed" /\ pc'[t] # "set_completed") => status' = "completed"]_vars

\* C24: at every moment at most one worker thread of the task is running,
\* whatever the interleaving of start and resume calls, two concurrent start
\* calls on a ready task included, with the start-up and the exit of workers.
C24_AtMostOneRunningWorker ==
    \A t1, t2 \in Threads : (IsAlive(t1) /\ IsAlive(t2)) => t1 = t2

\* The edges of the lifecycle ready -> preparing -> downloading <-> paused ->
\* completed | error | stopped | forced; an end state is entered from any of
\* the three states in the middle.
LifecycleEdges ==
    {<<"ready", "preparing">>, <<"preparing", "downloading">>,
     <<"downloading", "paused">>, <<"paused", "downloading">>}
        \cup ({"preparing", "downloading", "paused"} \X Terminal)

\* C25: every change of the status follows an edge of the lifecycle, and the
\* status does not read downloading while a worker is held at the pause gate
\* by a pause request that is still in effect.
C25_StatusFollowsLifecycle ==
    [][/\ status' # status => <<status, status'>> \in LifecycleEdges
       /\ \A t \in Threads :
             (pc'[t] = "pause_wait" /\ ~pause_event') => status' # "downloading"]_vars

\* Worker t is between two segments: at the checkpoint, blocked in the pause
\* wait, not started or gone.
BetweenSegments(t) ==
    pc[t] \in {"unborn", "created", "checkpoint", "chk_force", "chk_pause", "pause_status",
               "pause_wait", "dead"}

\* C26: whenever every worker is between two segments, the cursor is the
\* number of segments whose status is completed.
C26_CursorCountsCompleted ==
    (\A t \in Threads : BetweenSegments(t))
        => cursor = Cardinality({i \in 1..Len(segments) : segments[i].status = "completed"})

\* The temp file exists and its last bytes are those of data.
TempEndsWith(data) ==
    /\ fs'["temp"].exists
    /\ Len(fs'["temp"].data) >= Len(data)
    /\ SubSeq(fs'["temp"].data, Len(fs'["temp"].data) - Len(data) + 1, Len(fs'["temp"].data)) = data

\* C27: append precedes commit: in the step in which the segment at index i
\* becomes completed, its payload is already the end of the temp file.
C27_AppendPrecedesCommit ==
    [][\A i \in 0..(MaxSegments - 1) :
          (/\ Len(segments') > i
           /\ segments'[i + 1].status = "completed"
           /\ segments[i + 1].status # "completed")
              => TempEndsWith(Payload(i))]_vars

\* What worker t does at the checkpoint before a segment, signal by signal.
HonoursInOrder(t) ==
    /\ (pc[t] = "checkpoint" /\ pc'[t] # "checkpoint" /\ cursor < Len(segments) /\ stop_event) =>
           (status' = "stopped" /\ pc'[t] = "run_check")
    /\ (pc[t] = "chk_force" /\ pc'[t] # "chk_force") =>
           IF force_event THEN status' = "forced" /\ pc'[t] = "flush" ELSE pc'[t] = "chk_pause"
    /\ (pc[t] = "chk_pause" /\ pc'[t] # "chk_pause") =>
           IF pause_event THEN pc'[t] = "fetch_begin" ELSE pc'[t] = "pause_status"
    /\ (pc[t] = "pause_wait" /\ pc'[t] # "pause_wait" /\ ~pause_event) => pc'[t] = "checkpoint"

\* C28: at the checkpoint the worker honours cancel before force-save and
\* force-save before pause: a pending cancel gives stopped also with a
\* force-save pending; otherwise a pending force-save gives forced also with
\* the task paused, and a worker blocked by the pause goes back to the cancel
\* and force-save tests without a resume; only with neither pending does a
\* pause block the worker.
C28_CancelThenForceThenPause == [][\A t \in Threads : HonoursInOrder(t)]_vars

\* A paused task has been force-saved without a resume: the worker went
\* through the pause gate, the pause is still in force, and the task is
\* forced; and the cancel test was passed with no cancel pending.
C28_Witness_ForcedWhilePaused ==
    /\ status = "forced" /\ message = <<"Partial download saved">>
    /\ pauseHeld /\ pauseSeen /\ ~pause_event
    /\ force_event /\ ~stop_event
    /\ \E t \in Threads : pc[t] = "flush"

\* C29: a prepared AES-128 segment whose key declares no IV has as IV the
\* 16-byte big-endian encoding of media_sequence + p, p being the 0-based
\* place of the segment in the playlist, whatever start_segment is.
C29_ImplicitIvIsMediaSequencePlusPosition ==
    (prepared # NotCalled /\ key.uri # "" /\ key.method = "AES-128" /\ key.iv = <<>>)
        => \A k \in 1..Len(prepared[1]) :
              prepared[1][k].iv = to_bytes(media_sequence + (prepared[1][k].url - 1), 16)

\* C30: with decryption on, a segment whose key method is neither NONE nor
\* AES-128 makes _download_single_segment raise: the call never returns a
\* payload and nothing of the segment is appended to the temporary file.
C30_UnsupportedMethodIsAnError ==
    (/\ single_segment.result # NotCalled
     /\ single_segment.decrypt
     /\ single_segment.segment.key_uri # ""
     /\ single_segment.segment.method \notin {"NONE", "AES-128"})
        => /\ single_segment.result[1].outcome # "ok"
           /\ single_segment.temp = <<>>

\* C31: whenever the status of the task is completed, every segment of its
\* list is completed, whatever commands were issued, retry_segment included.
\* Stated for the tasks on which neither a cancel nor a force-save is pending,
\* where the status is the one the worker wrote.
C31_CompletedMeansAllSegmentsCompleted ==
    (status = "completed" /\ ~stop_event /\ ~force_event) => AllCompleted

\* C32: no step changes the output file of a completed task: the file that
\* the finalisation of a task produced is neither deleted nor overwritten by
\* a step of another task, the tasks of the same title included.
C32_CompletedOutputIsNeverTouched ==
    [][\A task_id \in TaskIds :
          shared.tasks[task_id].status = "completed"
              => shared'.files[ts_path(shared.tasks[task_id].title)]
                    = shared.files[ts_path(shared.tasks[task_id].title)]]_vars

\* C33: once delete_task has returned, the temporary file of the deleted
\* task does not exist and no step changes a file any more: its worker
\* appends nothing and creates nothing.
C33_DeletedTaskLeavesNothingAndIsSilent ==
    [][~Registered => (~fs["temp"].exists /\ fs' = fs)]_vars

\* A worker has just been started.
JustStarted == \E t \in Threads : pc[t] = "run_start"

\* The worker has written a final status and is at the end of _run.
WorkerEnding == status \in Terminal /\ \E t \in Threads : pc[t] = "finally"

NoWorkerAlive == \A t \in Threads : ~IsAlive(t)

\* C34: when every pause is followed by a resume (the commands, retry_segment
\* included, being finitely many), a started worker reaches the end of _run
\* with the status completed, error, stopped or forced, and every running
\* worker exits: no loop of the worker, the retry loop included, goes on
\* for ever.
C34_StartedTaskEnds ==
    ([]<>pause_event) => /\ JustStarted ~> WorkerEnding
                         /\ (\E t \in Threads : IsAlive(t)) ~> NoWorkerAlive

\* The worker has given up a segment after max_retries retries and has exited
\* with the status error.
C34_Witness_GaveUpAfterRetries ==
    /\ status = "error"
    /\ thread # NoThread /\ NoWorkerAlive
    /\ \E i \in 1..Len(segments) : segments[i].retries > MaxRetries

====
